---- MODULE Spec2Model ----
(***************************************************************************)
(* Model of the outfit-analysis route, POST /api/analyze-outfit            *)
(* (src/backend/src/routes/outfit-analysis.ts).                            *)
(*                                                                         *)
(* Every request runs the async handler of lines 58-163.  The handler      *)
(* suspends at each `await`; one action starts the request, and one action *)
(* per outcome of each awaited call (it resolves or it rejects) runs the   *)
(* handler up to its next `await` or to the response.                      *)
(*                                                                         *)
(* Strings the code computes with (category, media type, storage key,      *)
(* URL) are sequences of characters, the literal pieces of a template      *)
(* being one element each; strings it only passes along are TLA+ strings.  *)
(***************************************************************************)
EXTENDS Integers, Sequences, FiniteSets, TLC

\* ------------------------------------------------------------------ bounds
NumRequests == 1        \* requests the server receives
FirstClock == 9         \* Date.now() when the server starts
MaxClock == 10          \* the clock stops advancing here
NumConcurrent == 2      \* requests the server handles at the same time
MaxRuns == 2            \* runs of analyzeOutfit the screen may have unfinished

Requests == 1..NumRequests
ConcurrentRequests == 1..NumConcurrent

\* --------------------------------------------------------------- constants
FileSizeLimit == 10 * 1024 * 1024

Sport == <<"S", "p", "o", "r", "t">>
Casual == <<"C", "a", "s", "u", "a", "l">>
Professional == <<"P", "r", "o", "f", "e", "s", "s", "i", "o", "n", "a", "l">>
Chill == <<"C", "h", "i", "l", "l">>

\* z.enum(['Sport', 'Casual', 'Professional', 'Chill'])
OutfitCategory == {Sport, Casual, Professional, Chill}

NoFileBody == [error |-> "No file provided"]
TooLargeBody == [error |-> "File size limit exceeded (max 10MB)"]
FailedBody == [error |-> "Failed to analyze outfit image"]

\* ------------------------------------------------------------------ inputs
\* What a request carries: whether its body is multipart at all, the field
\* name of its first file part ("none": no file part), the size of that file
\* and whether its stream arrives intact.
FileRequests ==
    [multipart : {TRUE}, field : {"image", "photo"},
     size : {FileSizeLimit, FileSizeLimit + 1}, intact : {TRUE}]
      \cup [multipart : {TRUE}, field : {"image"},
            size : {FileSizeLimit - 1}, intact : {FALSE}]

IncomingRequests ==
    FileRequests
      \cup {[multipart |-> TRUE, field |-> "none", size |-> 0, intact |-> TRUE],
            [multipart |-> FALSE, field |-> "none", size |-> 0, intact |-> TRUE]}

\* What the vision model may answer, before the schema is applied.
Formal == <<"F", "o", "r", "m", "a", "l">>
LowerSport == <<"s", "p", "o", "r", "t">>

ModelOutputs ==
    [category : OutfitCategory \cup {Formal, LowerSport},
     explanation : {"Athletic wear."},
     confidence : {"High"}]
      \cup {[category |-> Professional, explanation |-> "Tailored suit.",
             confidence |-> "Medium"],
            [category |-> Sport, explanation |-> "Athletic wear."],
            [category |-> Casual, confidence |-> "High"],
            [explanation |-> "Athletic wear.", confidence |-> "High"]}

\* The call to the vision model fails: no answer at all.
NoAnswer == [failed |-> TRUE]

\* Generated files of the image model.
ImagePng == <<"i", "m", "a", "g", "e", "/", "p", "n", "g">>
TextPlain == <<"t", "e", "x", "t", "/", "p", "l", "a", "i", "n">>
Imagery == <<"i", "m", "a", "g", "e", "r", "y">>

PngA == <<137, 80, 1>>
PngB == <<137, 80, 2>>

FileA == [mediaType |-> ImagePng, uint8Array |-> PngA]
FileB == [mediaType |-> ImagePng, uint8Array |-> PngB]
FileText == [mediaType |-> TextPlain, uint8Array |-> <<104, 105>>]
FileNoType == [uint8Array |-> PngB]
FileImagery == [mediaType |-> Imagery, uint8Array |-> PngB]
FileNoBytes == [mediaType |-> ImagePng]

GenerationResults ==
    {[text |-> "no files"],
     [text |-> "", files |-> <<>>],
     [text |-> "", files |-> <<FileText>>],
     [text |-> "", files |-> <<FileNoType, FileImagery>>],
     [text |-> "", files |-> <<FileA>>],
     [text |-> "", files |-> <<FileText, FileB, FileA>>],
     [text |-> "", files |-> <<FileNoBytes, FileA>>]}

\* ----------------------------------------------------------- pure helpers
UpperCase == <<"A", "B", "C", "D", "E", "F", "G", "H", "I", "J", "K", "L", "M",
               "N", "O", "P", "Q", "R", "S", "T", "U", "V", "W", "X", "Y", "Z">>
LowerCase == <<"a", "b", "c", "d", "e", "f", "g", "h", "i", "j", "k", "l", "m",
               "n", "o", "p", "q", "r", "s", "t", "u", "v", "w", "x", "y", "z">>
DecimalDigits == <<"0", "1", "2", "3", "4", "5", "6", "7", "8", "9">>

\* String.prototype.toLowerCase, character by character.
ToLowerChar(c) ==
    IF \E i \in DOMAIN UpperCase : UpperCase[i] = c
    THEN LowerCase[CHOOSE i \in DOMAIN UpperCase : UpperCase[i] = c]
    ELSE c

ToLowerCase(s) == [i \in DOMAIN s |-> ToLowerChar(s[i])]

\* The decimal text a template literal gives a non-negative integer.
RECURSIVE NumberToString(_)
NumberToString(n) ==
    IF n < 10 THEN <<DecimalDigits[n + 1]>>
    ELSE NumberToString(n \div 10) \o <<DecimalDigits[(n % 10) + 1]>>

\* String.prototype.startsWith
StartsWith(s, prefix) ==
    /\ Len(s) >= Len(prefix)
    /\ SubSeq(s, 1, Len(prefix)) = prefix

ImageSlash == <<"i", "m", "a", "g", "e", "/">>

\* Variant of IsImageFile: the prefix is tested without its slash.
IsImageFileNoSlash(f) ==
    /\ "mediaType" \in DOMAIN f
    /\ StartsWith(f.mediaType, <<"i", "m", "a", "g", "e">>)

\* f.mediaType?.startsWith('image/')  (line 135)
IsImageFile(f) ==
    /\ "mediaType" \in DOMAIN f
    /\ StartsWith(f.mediaType, ImageSlash)

\* Variant of FindFrom: the last image file is taken, not the first.
RECURSIVE FindLastFrom(_, _)
FindLastFrom(files, i) ==
    IF i > Len(files) THEN 0
    ELSE LET later == FindLastFrom(files, i + 1)
         IN  IF later > 0 THEN later
             ELSE IF IsImageFile(files[i]) THEN i ELSE 0

\* Array.prototype.find: the index of the first file the predicate accepts,
\* 0 when there is none.
RECURSIVE FindFrom(_, _)
FindFrom(files, i) ==
    IF i > Len(files) THEN 0
    ELSE IF IsImageFile(files[i]) THEN i
    ELSE FindFrom(files, i + 1)

FindImageFile(files) == FindFrom(files, 1)

\* generationResult.files && generationResult.files.length > 0, then
\* imageFile && imageFile.uint8Array  (lines 133-137): the index of the file
\* that is uploaded, 0 when nothing is uploaded.
UploadedFileIndex(res) ==
    IF "files" \in DOMAIN res /\ Len(res.files) > 0
    THEN LET i == FindImageFile(res.files)
         IN  IF i > 0 /\ "uint8Array" \in DOMAIN res.files[i] THEN i ELSE 0
    ELSE 0

\* Buffer.from(imageFile.uint8Array)  (line 139)
ImageBuffer(res) == res.files[UploadedFileIndex(res)].uint8Array

\* Variant of StorageKey: the category is left out of the key.
StorageKeyTimestampOnly(ts, category) ==
    <<"outfit-suggestions/">> \o NumberToString(ts) \o <<".png">>

\* Variant of StorageKey: the category keeps its case.
StorageKeyKeepCase(ts, category) ==
    <<"outfit-suggestions/">> \o NumberToString(ts) \o <<"-">>
        \o category \o <<".png">>

\* `outfit-suggestions/${timestamp}-${object.category.toLowerCase()}.png`
StorageKey(ts, category) ==
    <<"outfit-suggestions/">> \o NumberToString(ts) \o <<"-">>
        \o ToLowerCase(category) \o <<".png">>

\* The URL the store signs for a key.
SignedUrl(key) == <<"https://storage/">> \o key \o <<"?signature">>

\* Variant of outfitAnalysisSchema: category is z.string(), not z.enum.
outfitAnalysisSchemaAnyString(raw) ==
    {"category", "explanation", "confidence"} \subseteq DOMAIN raw

\* outfitAnalysisSchema: does the model's answer conform?
outfitAnalysisSchema(raw) ==
    /\ {"category", "explanation", "confidence"} \subseteq DOMAIN raw
    /\ raw.category \in OutfitCategory

\* The object generateObject hands back for a conforming answer.
ParsedObject(raw) ==
    [category |-> raw.category, explanation |-> raw.explanation,
     confidence |-> raw.confidence]

\* Variant of ExceedsLimit: a file of exactly the limit is refused too.
ExceedsLimitInclusive(size) == size >= FileSizeLimit

\* data.toBuffer() rejects when the stream passes the fileSize limit or breaks.
ExceedsLimit(size) == size > FileSizeLimit

ToBufferRejects(req) == ExceedsLimit(req.size) \/ ~req.intact

\* --------------------------------------------------------------- variables
VARIABLES
    pc,                 \* per request: the call the handler awaits, "idle", "done"
    incoming,           \* per request: what the request carries
    answer,             \* per request: what the vision model answered
    object,             \* per request: `object` of generateObject (line 80)
    generationResult,   \* per request: result of generateText (line 126)
    timestamp,          \* per request: `timestamp` (line 141)
    storageKey,         \* per request: `storageKey` (line 142)
    calls,              \* per request: the external calls started, in order
    pending,            \* per request: the external calls not yet settled
    settled,            \* per request: the calls settled, with their outcome
    replies,            \* per request: the responses sent, in order
    errorLog,           \* per request: records written by app.logger.error
    store,              \* the artifact store: pairs <<key, bytes>>, one per key
    clock,              \* Date.now()
    \* the client screen, src/app/camera.tsx
    selectedImage,      \* useState: uri of the chosen photo, or Null
    analyzing,          \* useState: an analysis is running
    result,             \* useState: the analysis shown, or NoResult
    resultOf,           \* the photo that `result` is the analysis of, or Null
    picker,             \* the camera / library flow that is open, or "none"
    runs,               \* the runs of analyzeOutfit that have not finished
    alert               \* the last Alert.alert shown: title and message

serverVars == <<pc, incoming, answer, object, generationResult, timestamp, storageKey,
                calls, pending, settled, replies, errorLog, store, clock>>

clientVars == <<selectedImage, analyzing, result, resultOf, picker, runs, alert>>

vars == <<serverVars, clientVars>>

Null == "null"

NoRequest == [multipart |-> FALSE, field |-> "unset", size |-> 0, intact |-> TRUE]
NoObject == [unset |-> TRUE]
NoResult == [unset |-> TRUE]
NoAlert == [title |-> "none", message |-> <<>>]
NoResponse == [status |-> 0, body |-> NoResult]

\* The server before any request of R has arrived.
ServerInit(R) ==
    /\ pc = [r \in R |-> "idle"]
    /\ incoming = [r \in R |-> NoRequest]
    /\ answer = [r \in R |-> NoObject]
    /\ object = [r \in R |-> NoObject]
    /\ generationResult = [r \in R |-> NoResult]
    /\ timestamp = [r \in R |-> 0]
    /\ storageKey = [r \in R |-> <<>>]
    /\ calls = [r \in R |-> <<>>]
    /\ pending = [r \in R |-> {}]
    /\ settled = [r \in R |-> <<>>]
    /\ replies = [r \in R |-> <<>>]
    /\ errorLog = [r \in R |-> <<>>]
    /\ store = {}
    /\ clock = FirstClock

\* The screen as CameraScreen mounts it (lines 43-45).
ClientInit ==
    /\ selectedImage = Null
    /\ analyzing = FALSE
    /\ result = NoResult
    /\ resultOf = Null
    /\ picker = "none"
    /\ runs = <<>>
    /\ alert = NoAlert

Init == ServerInit(Requests) /\ ClientInit

\* ----------------------------------------------------------------- actions
CallOf(op, key) == [op |-> op, key |-> key]

\* The handler of request r starts an external call and suspends on it.
Start(r, op, key) ==
    /\ calls' = [calls EXCEPT ![r] = Append(@, CallOf(op, key))]
    /\ pc' = [pc EXCEPT ![r] = op]

\* The call the handler of r awaits has settled (ok: it resolved).
Settle(r, op, ok) ==
    /\ pc[r] = op
    /\ op \in pending[r]
    /\ settled' = [settled EXCEPT ![r] = Append(@, [op |-> op, ok |-> ok])]

\* reply.status(status).send(body), or `return body` for 200: the handler ends.
Reply(r, status, body) ==
    /\ replies' = [replies EXCEPT ![r] = Append(@, [status |-> status, body |-> body])]
    /\ pc' = [pc EXCEPT ![r] = "done"]

\* Variant of Catch: the error is logged and swallowed, no response is sent.
CatchNoReply(r, op) ==
    /\ errorLog' = [errorLog EXCEPT ![r] =
                        Append(@, [error |-> op, msg |-> "Error analyzing outfit"])]
    /\ pc' = [pc EXCEPT ![r] = "done"]
    /\ UNCHANGED replies

\* Variant of Catch: the error is answered but not logged.
CatchUnlogged(r, op) ==
    /\ UNCHANGED errorLog
    /\ Reply(r, 500, FailedBody)

\* Variant of Catch: the 500 body names the call that failed.
CatchNamingStage(r, op) ==
    /\ errorLog' = [errorLog EXCEPT ![r] =
                        Append(@, [error |-> op, msg |-> "Error analyzing outfit"])]
    /\ Reply(r, 500, [error |-> "Failed to analyze outfit image", stage |-> op])

\* Lines 157-162: the outermost catch logs the error and answers 500.
Catch(r, op) ==
    /\ errorLog' = [errorLog EXCEPT ![r] =
                        Append(@, [error |-> op, msg |-> "Error analyzing outfit"])]
    /\ Reply(r, 500, FailedBody)

\* Lines 151-156: the combined response.
CombinedResponse(obj, suggestionImageUrl) ==
    [category |-> obj.category, explanation |-> obj.explanation,
     confidence |-> obj.confidence, suggestionImageUrl |-> suggestionImageUrl]

\* A request arrives; the handler calls request.file (line 61).
ReceiveRequest(r, req) ==
    /\ pc[r] = "idle"
    /\ incoming' = [incoming EXCEPT ![r] = req]
    /\ Start(r, "file", <<>>)
    /\ pending' = [pending EXCEPT ![r] = {"file"}]
    /\ UNCHANGED <<answer, object, generationResult, timestamp, storageKey, settled,
                   replies, errorLog, store, clock>>

\* Variant of FileMissing: `data` is used unchecked, the TypeError is caught.
FileMissingUnchecked(r) ==
    /\ incoming[r].multipart
    /\ incoming[r].field = "none"
    /\ Settle(r, "file", TRUE)
    /\ pending' = [pending EXCEPT ![r] = @ \ {"file"}]
    /\ Catch(r, "toBuffer")
    /\ UNCHANGED <<incoming, answer, object, generationResult, timestamp, storageKey,
                   calls, store, clock>>

\* request.file resolves to undefined: 400 (lines 62-64).
FileMissing(r) ==
    /\ incoming[r].multipart
    /\ incoming[r].field = "none"
    /\ Settle(r, "file", TRUE)
    /\ pending' = [pending EXCEPT ![r] = @ \ {"file"}]
    /\ Reply(r, 400, NoFileBody)
    /\ UNCHANGED <<incoming, answer, object, generationResult, timestamp, storageKey,
                   calls, errorLog, store, clock>>

\* request.file resolves to the first file part, whatever its field name;
\* the handler calls data.toBuffer (line 69).
FileFound(r) ==
    /\ incoming[r].multipart
    /\ incoming[r].field # "none"
    /\ Settle(r, "file", TRUE)
    /\ Start(r, "toBuffer", <<>>)
    /\ pending' = [pending EXCEPT ![r] = (@ \ {"file"}) \cup {"toBuffer"}]
    /\ UNCHANGED <<incoming, answer, object, generationResult, timestamp, storageKey,
                   replies, errorLog, store, clock>>

\* request.file rejects (the body is not multipart): caught at line 157.
FileRejects(r) ==
    /\ ~incoming[r].multipart
    /\ Settle(r, "file", FALSE)
    /\ pending' = [pending EXCEPT ![r] = @ \ {"file"}]
    /\ Catch(r, "file")
    /\ UNCHANGED <<incoming, answer, object, generationResult, timestamp, storageKey,
                   calls, store, clock>>

\* Variant of ToBufferFails: the classifier is invoked before the 413 is sent.
ToBufferFailsAfterClassifier(r) ==
    /\ ToBufferRejects(incoming[r])
    /\ Settle(r, "toBuffer", FALSE)
    /\ pending' = [pending EXCEPT ![r] = @ \ {"toBuffer"}]
    /\ calls' = [calls EXCEPT ![r] = Append(@, CallOf("generateObject", <<>>))]
    /\ Reply(r, 413, TooLargeBody)
    /\ UNCHANGED <<incoming, answer, object, generationResult, timestamp, storageKey,
                   errorLog, store, clock>>

\* data.toBuffer rejects: 413, whatever the cause (lines 70-74).
ToBufferFails(r) ==
    /\ ToBufferRejects(incoming[r])
    /\ Settle(r, "toBuffer", FALSE)
    /\ pending' = [pending EXCEPT ![r] = @ \ {"toBuffer"}]
    /\ Reply(r, 413, TooLargeBody)
    /\ UNCHANGED <<incoming, answer, object, generationResult, timestamp, storageKey,
                   calls, errorLog, store, clock>>

\* Variant of ToBufferResolves: both model calls are started together.
ToBufferResolvesParallel(r) ==
    /\ ~ToBufferRejects(incoming[r])
    /\ Settle(r, "toBuffer", TRUE)
    /\ calls' = [calls EXCEPT ![r] = @ \o <<CallOf("generateObject", <<>>),
                                            CallOf("generateText", <<>>)>>]
    /\ pc' = [pc EXCEPT ![r] = "generateObject"]
    /\ pending' = [pending EXCEPT ![r] =
                       (@ \ {"toBuffer"}) \cup {"generateObject", "generateText"}]
    /\ UNCHANGED <<incoming, answer, object, generationResult, timestamp, storageKey,
                   replies, errorLog, store, clock>>

\* data.toBuffer resolves; the handler calls generateObject (lines 77-112).
ToBufferResolves(r) ==
    /\ ~ToBufferRejects(incoming[r])
    /\ Settle(r, "toBuffer", TRUE)
    /\ Start(r, "generateObject", <<>>)
    /\ pending' = [pending EXCEPT ![r] = (@ \ {"toBuffer"}) \cup {"generateObject"}]
    /\ UNCHANGED <<incoming, answer, object, generationResult, timestamp, storageKey,
                   replies, errorLog, store, clock>>

\* generateObject resolves with an object that conforms to the schema; the
\* handler builds the prompt and calls generateText (lines 115-129).
GenerateObjectResolves(r, raw) ==
    /\ outfitAnalysisSchema(raw)
    /\ Settle(r, "generateObject", TRUE)
    /\ answer' = [answer EXCEPT ![r] = raw]
    /\ object' = [object EXCEPT ![r] = ParsedObject(raw)]
    /\ Start(r, "generateText", <<>>)
    /\ pending' = [pending EXCEPT ![r] = (@ \ {"generateObject"}) \cup {"generateText"}]
    /\ UNCHANGED <<incoming, generationResult, timestamp, storageKey, replies,
                   errorLog, store, clock>>

\* Variant of GenerateObjectRejects: the failure is swallowed and the handler
\* goes on with a default analysis.
GenerateObjectRejectsFallback(r, raw) ==
    /\ raw = NoAnswer \/ ~outfitAnalysisSchema(raw)
    /\ Settle(r, "generateObject", FALSE)
    /\ answer' = [answer EXCEPT ![r] = raw]
    /\ object' = [object EXCEPT ![r] =
                      [category |-> Casual, explanation |-> "", confidence |-> "Low"]]
    /\ Start(r, "generateText", <<>>)
    /\ pending' = [pending EXCEPT ![r] = (@ \ {"generateObject"}) \cup {"generateText"}]
    /\ UNCHANGED <<incoming, generationResult, timestamp, storageKey, replies,
                   errorLog, store, clock>>

\* generateObject rejects: the call failed (raw = NoAnswer) or the model's
\* answer does not conform to the schema.  Caught at line 157.
GenerateObjectRejects(r, raw) ==
    /\ raw = NoAnswer \/ ~outfitAnalysisSchema(raw)
    /\ Settle(r, "generateObject", FALSE)
    /\ pending' = [pending EXCEPT ![r] = @ \ {"generateObject"}]
    /\ answer' = [answer EXCEPT ![r] = raw]
    /\ Catch(r, "generateObject")
    /\ UNCHANGED <<incoming, object, generationResult, timestamp, storageKey,
                   calls, store, clock>>

\* Variant of GenerateTextRejects: the failure degrades to an empty URL.
GenerateTextRejectsDegrades(r) ==
    /\ Settle(r, "generateText", FALSE)
    /\ pending' = [pending EXCEPT ![r] = @ \ {"generateText"}]
    /\ Reply(r, 200, CombinedResponse(object[r], <<>>))
    /\ UNCHANGED <<incoming, answer, object, generationResult, timestamp, storageKey,
                   calls, errorLog, store, clock>>

\* generateText rejects: caught at line 157.
GenerateTextRejects(r) ==
    /\ Settle(r, "generateText", FALSE)
    /\ pending' = [pending EXCEPT ![r] = @ \ {"generateText"}]
    /\ Catch(r, "generateText")
    /\ UNCHANGED <<incoming, answer, object, generationResult, timestamp, storageKey,
                   calls, store, clock>>

\* Variant of GenerateTextNoImage: `object` lives in a variable that all
\* requests share, so the response may carry another request's analysis.
GenerateTextNoImageShared(r, res) ==
    /\ UploadedFileIndex(res) = 0
    /\ Settle(r, "generateText", TRUE)
    /\ generationResult' = [generationResult EXCEPT ![r] = res]
    /\ pending' = [pending EXCEPT ![r] = @ \ {"generateText"}]
    /\ \E q \in DOMAIN object :
           /\ object[q] # NoObject
           /\ Reply(r, 200, CombinedResponse(object[q], <<>>))
    /\ UNCHANGED <<incoming, answer, object, timestamp, storageKey, calls,
                   errorLog, store, clock>>

\* generateText resolves with nothing to upload: 200 with an empty URL
\* (lines 132-137, 151-156).
GenerateTextNoImage(r, res) ==
    /\ UploadedFileIndex(res) = 0
    /\ Settle(r, "generateText", TRUE)
    /\ generationResult' = [generationResult EXCEPT ![r] = res]
    /\ pending' = [pending EXCEPT ![r] = @ \ {"generateText"}]
    /\ Reply(r, 200, CombinedResponse(object[r], <<>>))
    /\ UNCHANGED <<incoming, answer, object, timestamp, storageKey, calls, errorLog,
                   store, clock>>

\* generateText resolves with an image: the handler reads the clock, derives
\* the key and calls app.storage.upload (lines 137-143).
GenerateTextImage(r, res) ==
    /\ UploadedFileIndex(res) > 0
    /\ Settle(r, "generateText", TRUE)
    /\ generationResult' = [generationResult EXCEPT ![r] = res]
    /\ timestamp' = [timestamp EXCEPT ![r] = clock]
    /\ storageKey' = [storageKey EXCEPT ![r] = StorageKey(clock, object[r].category)]
    /\ Start(r, "upload", storageKey'[r])
    /\ pending' = [pending EXCEPT ![r] = (@ \ {"generateText"}) \cup {"upload"}]
    /\ UNCHANGED <<incoming, answer, object, replies, errorLog, store, clock>>

\* Variant of UploadRejects: a failed upload is tried once more.
UploadRejectsRetries(r) ==
    /\ Settle(r, "upload", FALSE)
    /\ IF Len(calls[r]) < 6
       THEN /\ Start(r, "upload", storageKey[r])
            /\ UNCHANGED <<pending, replies, errorLog>>
       ELSE /\ pending' = [pending EXCEPT ![r] = @ \ {"upload"}]
            /\ Catch(r, "upload")
            /\ UNCHANGED calls
    /\ UNCHANGED <<incoming, answer, object, generationResult, timestamp, storageKey,
                   store, clock>>

\* app.storage.upload rejects: caught at line 157.
UploadRejects(r) ==
    /\ Settle(r, "upload", FALSE)
    /\ pending' = [pending EXCEPT ![r] = @ \ {"upload"}]
    /\ Catch(r, "upload")
    /\ UNCHANGED <<incoming, answer, object, generationResult, timestamp, storageKey,
                   calls, store, clock>>

\* The store after upload(key, bytes): the key holds these bytes.
Stored(key, bytes) == {o \in store : o[1] # key} \cup {<<key, bytes>>}

\* app.storage.upload resolves; the handler calls getSignedUrl (line 145).
UploadResolves(r) ==
    /\ Settle(r, "upload", TRUE)
    /\ store' = Stored(storageKey[r], ImageBuffer(generationResult[r]))
    /\ Start(r, "getSignedUrl", storageKey[r])
    /\ pending' = [pending EXCEPT ![r] = (@ \ {"upload"}) \cup {"getSignedUrl"}]
    /\ UNCHANGED <<incoming, answer, object, generationResult, timestamp, storageKey,
                   replies, errorLog, clock>>

\* app.storage.getSignedUrl rejects: caught at line 157.
GetSignedUrlRejects(r) ==
    /\ Settle(r, "getSignedUrl", FALSE)
    /\ pending' = [pending EXCEPT ![r] = @ \ {"getSignedUrl"}]
    /\ Catch(r, "getSignedUrl")
    /\ UNCHANGED <<incoming, answer, object, generationResult, timestamp, storageKey,
                   calls, store, clock>>

\* app.storage.getSignedUrl resolves: 200 with the URL (lines 146, 151-156).
GetSignedUrlResolves(r) ==
    /\ Settle(r, "getSignedUrl", TRUE)
    /\ pending' = [pending EXCEPT ![r] = @ \ {"getSignedUrl"}]
    /\ Reply(r, 200, CombinedResponse(object[r], SignedUrl(storageKey[r])))
    /\ UNCHANGED <<incoming, answer, object, generationResult, timestamp, storageKey,
                   calls, errorLog, store, clock>>

\* Time passes: Date.now() grows.
Tick ==
    /\ clock < MaxClock
    /\ clock' = clock + 1
    /\ UNCHANGED <<pc, incoming, answer, object, generationResult, timestamp, storageKey,
                   calls, pending, settled, replies, errorLog, store>>

Next ==
    \/ Tick /\ UNCHANGED clientVars
    \/ \E r \in Requests, req \in IncomingRequests : ReceiveRequest(r, req)
           /\ UNCHANGED clientVars
    \/ \E r \in Requests : FileMissing(r)
           /\ UNCHANGED clientVars
    \/ \E r \in Requests : FileFound(r)
           /\ UNCHANGED clientVars
    \/ \E r \in Requests : FileRejects(r)
           /\ UNCHANGED clientVars
    \/ \E r \in Requests : ToBufferFails(r)
           /\ UNCHANGED clientVars
    \/ \E r \in Requests : ToBufferResolves(r)
           /\ UNCHANGED clientVars
    \/ \E r \in Requests, raw \in ModelOutputs : GenerateObjectResolves(r, raw)
           /\ UNCHANGED clientVars
    \/ \E r \in Requests, raw \in ModelOutputs \cup {NoAnswer} : GenerateObjectRejects(r, raw)
           /\ UNCHANGED clientVars
    \/ \E r \in Requests : GenerateTextRejects(r)
           /\ UNCHANGED clientVars
    \/ \E r \in Requests, res \in GenerationResults : GenerateTextNoImage(r, res)
           /\ UNCHANGED clientVars
    \/ \E r \in Requests, res \in GenerationResults : GenerateTextImage(r, res)
           /\ UNCHANGED clientVars
    \/ \E r \in Requests : UploadRejects(r)
           /\ UNCHANGED clientVars
    \/ \E r \in Requests : UploadResolves(r)
           /\ UNCHANGED clientVars
    \/ \E r \in Requests : GetSignedUrlRejects(r)
           /\ UNCHANGED clientVars
    \/ \E r \in Requests : GetSignedUrlResolves(r)
           /\ UNCHANGED clientVars

Spec == Init /\ [][Next]_vars

\* The call the handler of request r awaits returns or throws, and the handler
\* runs up to its next await or to its response.
Returns(r) ==
    /\ \/ FileMissing(r)
       \/ FileFound(r)
       \/ FileRejects(r)
       \/ ToBufferFails(r)
       \/ ToBufferResolves(r)
       \/ \E raw \in ModelOutputs : GenerateObjectResolves(r, raw)
       \/ \E raw \in ModelOutputs \cup {NoAnswer} : GenerateObjectRejects(r, raw)
       \/ GenerateTextRejects(r)
       \/ \E res \in GenerationResults : GenerateTextNoImage(r, res)
       \/ \E res \in GenerationResults : GenerateTextImage(r, res)
       \/ UploadRejects(r)
       \/ UploadResolves(r)
       \/ GetSignedUrlRejects(r)
       \/ GetSignedUrlResolves(r)
    /\ UNCHANGED clientVars

\* The server under the assumption that no external call stays pending forever.
SpecFair == Spec /\ \A r \in Requests : WF_vars(Returns(r))

\* ------------------------------------------------- concurrent requests
\* The server handling several requests at once: the same handler steps,
\* interleaved at their awaits, over fewer kinds of input.
ConcurrentIncoming ==
    {[multipart |-> TRUE, field |-> "image", size |-> FileSizeLimit, intact |-> TRUE],
     [multipart |-> TRUE, field |-> "image", size |-> FileSizeLimit + 1, intact |-> TRUE],
     [multipart |-> TRUE, field |-> "none", size |-> 0, intact |-> TRUE],
     [multipart |-> FALSE, field |-> "none", size |-> 0, intact |-> TRUE]}

ConcurrentOutputs ==
    {[category |-> Sport, explanation |-> "Athletic wear.", confidence |-> "High"],
     [category |-> Professional, explanation |-> "Tailored suit.",
      confidence |-> "Medium"]}

ConcurrentResults ==
    {[text |-> "no files"],
     [text |-> "", files |-> <<FileA>>],
     [text |-> "", files |-> <<FileText, FileB, FileA>>]}

InitConcurrent == ServerInit(ConcurrentRequests) /\ ClientInit

NextConcurrent ==
    \/ Tick /\ UNCHANGED clientVars
    \/ \E r \in ConcurrentRequests, req \in ConcurrentIncoming : ReceiveRequest(r, req)
           /\ UNCHANGED clientVars
    \/ \E r \in ConcurrentRequests : FileMissing(r)
           /\ UNCHANGED clientVars
    \/ \E r \in ConcurrentRequests : FileFound(r)
           /\ UNCHANGED clientVars
    \/ \E r \in ConcurrentRequests : FileRejects(r)
           /\ UNCHANGED clientVars
    \/ \E r \in ConcurrentRequests : ToBufferFails(r)
           /\ UNCHANGED clientVars
    \/ \E r \in ConcurrentRequests : ToBufferResolves(r)
           /\ UNCHANGED clientVars
    \/ \E r \in ConcurrentRequests, raw \in ConcurrentOutputs : GenerateObjectResolves(r, raw)
           /\ UNCHANGED clientVars
    \/ \E r \in ConcurrentRequests : GenerateObjectRejects(r, NoAnswer)
           /\ UNCHANGED clientVars
    \/ \E r \in ConcurrentRequests : GenerateTextRejects(r)
           /\ UNCHANGED clientVars
    \/ \E r \in ConcurrentRequests, res \in ConcurrentResults : GenerateTextNoImage(r, res)
           /\ UNCHANGED clientVars
    \/ \E r \in ConcurrentRequests, res \in ConcurrentResults : GenerateTextImage(r, res)
           /\ UNCHANGED clientVars
    \/ \E r \in ConcurrentRequests : UploadRejects(r)
           /\ UNCHANGED clientVars
    \/ \E r \in ConcurrentRequests : UploadResolves(r)
           /\ UNCHANGED clientVars
    \/ \E r \in ConcurrentRequests : GetSignedUrlRejects(r)
           /\ UNCHANGED clientVars
    \/ \E r \in ConcurrentRequests : GetSignedUrlResolves(r)
           /\ UNCHANGED clientVars

SpecConcurrent == InitConcurrent /\ [][NextConcurrent]_vars

\* ------------------------------------------------------ the client screen
\* CameraScreen of src/app/camera.tsx: the user's presses, the picker flows
\* and the runs of analyzeOutfit, interleaved at their awaits.
Images == {"file:///a.jpg", "file:///b.png"}

\* What launchCameraAsync / launchImageLibraryAsync resolve with.
PickerResults ==
    {[canceled |-> TRUE, assets |-> <<>>]}
      \cup {[canceled |-> FALSE, assets |-> <<[uri |-> u]>>] : u \in Images}

\* What fetch may resolve with: the server's responses, and 200 bodies that
\* lack a category or carry an empty explanation.
HttpResponses ==
    {[status |-> 200,
      body |-> CombinedResponse([category |-> Sport, explanation |-> "Athletic wear.",
                                 confidence |-> "High"], <<>>)],
     [status |-> 200,
      body |-> CombinedResponse([category |-> Professional,
                                 explanation |-> "Tailored suit.",
                                 confidence |-> "Medium"], <<>>)],
     [status |-> 200,
      body |-> CombinedResponse([category |-> Sport, explanation |-> "",
                                 confidence |-> "High"], <<>>)],
     [status |-> 200, body |-> [explanation |-> "Athletic wear."]],
     [status |-> 400, body |-> NoFileBody],
     [status |-> 413, body |-> TooLargeBody],
     [status |-> 500, body |-> FailedBody]}

\* Response.ok
IsOk(status) == status >= 200 /\ status <= 299

\* data.category && data.explanation  (line 158, negated there)
HasCategoryAndExplanation(data) ==
    /\ "category" \in DOMAIN data
    /\ data.category # <<>>
    /\ "explanation" \in DOMAIN data
    /\ data.explanation # ""

RemoveAt(seq, i) == SubSeq(seq, 1, i - 1) \o SubSeq(seq, i + 1, Len(seq))

\* setSelectedImage(uri); setResult(null)  (lines 74-75, 98-99)
SelectImage(uri) ==
    /\ selectedImage' = uri
    /\ result' = NoResult
    /\ resultOf' = Null

\* Take Photo is pressed: takePhoto awaits requestPermissions (lines 59-61).
TakePhoto ==
    /\ picker = "none"
    /\ picker' = "permission"
    /\ UNCHANGED <<selectedImage, analyzing, result, resultOf, runs, alert>>

\* The permission is not granted: an alert, and takePhoto returns (49-55, 62).
PermissionDenied ==
    /\ picker = "permission"
    /\ picker' = "none"
    /\ alert' = [title |-> "Permission Required",
                 message |-> <<"Camera permission is needed to take photos of your outfits.">>]
    /\ UNCHANGED <<selectedImage, analyzing, result, resultOf, runs>>

\* requestCameraPermissionsAsync rejects, outside any try: takePhoto ends.
PermissionRejects ==
    /\ picker = "permission"
    /\ picker' = "none"
    /\ UNCHANGED <<selectedImage, analyzing, result, resultOf, runs, alert>>

\* The permission is granted: takePhoto awaits launchCameraAsync (line 65).
PermissionGranted ==
    /\ picker = "permission"
    /\ picker' = "camera"
    /\ UNCHANGED <<selectedImage, analyzing, result, resultOf, runs, alert>>

\* launchCameraAsync resolves (lines 72-78).
CameraResolves(res) ==
    /\ picker = "camera"
    /\ picker' = "none"
    /\ IF ~res.canceled /\ res.assets # <<>>
       THEN SelectImage(res.assets[1].uri)
       ELSE UNCHANGED <<selectedImage, result, resultOf>>
    /\ UNCHANGED <<analyzing, runs, alert>>

\* launchCameraAsync rejects (lines 79-82).
CameraRejects ==
    /\ picker = "camera"
    /\ picker' = "none"
    /\ alert' = [title |-> "Error",
                 message |-> <<"Failed to take photo. Please try again.">>]
    /\ UNCHANGED <<selectedImage, analyzing, result, resultOf, runs>>

\* Choose from Gallery is pressed: pickImage awaits launchImageLibraryAsync (88).
PickImage ==
    /\ picker = "none"
    /\ picker' = "library"
    /\ UNCHANGED <<selectedImage, analyzing, result, resultOf, runs, alert>>

\* launchImageLibraryAsync resolves (lines 95-101).
LibraryResolves(res) ==
    /\ picker = "library"
    /\ picker' = "none"
    /\ IF ~res.canceled /\ res.assets # <<>>
       THEN SelectImage(res.assets[1].uri)
       ELSE UNCHANGED <<selectedImage, result, resultOf>>
    /\ UNCHANGED <<analyzing, runs, alert>>

\* launchImageLibraryAsync rejects (lines 102-105).
LibraryRejects ==
    /\ picker = "library"
    /\ picker' = "none"
    /\ alert' = [title |-> "Error",
                 message |-> <<"Failed to pick image. Please try again.">>]
    /\ UNCHANGED <<selectedImage, analyzing, result, resultOf, runs>>

\* Variant of AnalyzeOutfit: the button is not disabled while analyzing.
AnalyzeOutfitNotDisabled ==
    /\ picker = "none"
    /\ selectedImage # Null
    /\ result = NoResult
    /\ Len(runs) < MaxRuns
    /\ analyzing' = TRUE
    /\ result' = NoResult
    /\ resultOf' = Null
    /\ runs' = Append(runs, [image |-> selectedImage, phase |-> "fetch",
                             response |-> NoResponse])
    /\ UNCHANGED <<selectedImage, picker, alert>>

\* Analyze Outfit is pressed. The button is rendered only with a selected
\* image and no result, and is disabled while analyzing (lines 266-272), so
\* the guard of lines 109-112 never fires. The run keeps the selectedImage of
\* the render it was started from, sets analyzing, clears the result and
\* awaits fetch with that image in the form's 'image' field (lines 116-142).
AnalyzeOutfit ==
    /\ picker = "none"
    /\ selectedImage # Null
    /\ result = NoResult
    /\ ~analyzing
    /\ Len(runs) < MaxRuns
    /\ analyzing' = TRUE
    /\ result' = NoResult
    /\ resultOf' = Null
    /\ runs' = Append(runs, [image |-> selectedImage, phase |-> "fetch",
                             response |-> NoResponse])
    /\ UNCHANGED <<selectedImage, picker, alert>>

\* Lines 164-172: an error thrown inside the try of run i is caught, shown
\* with its message, and `finally` clears analyzing; the run is over.
Throw(i, message) ==
    /\ alert' = [title |-> "Analysis Failed", message |-> message]
    /\ analyzing' = FALSE
    /\ runs' = RemoveAt(runs, i)
    /\ UNCHANGED <<selectedImage, result, resultOf, picker>>

\* fetch rejects: no response at all.
FetchRejects(i) ==
    /\ runs[i].phase = "fetch"
    /\ Throw(i, <<"Network request failed">>)

\* fetch resolves (line 135); the run awaits response.text() for a non-OK
\* status (line 147) and response.json() otherwise (line 152).
FetchResolves(i, resp) ==
    /\ runs[i].phase = "fetch"
    /\ runs' = [runs EXCEPT ![i] = [image |-> @.image,
                                    phase |-> IF IsOk(resp.status) THEN "json" ELSE "text",
                                    response |-> resp]]
    /\ UNCHANGED <<selectedImage, analyzing, result, resultOf, picker, alert>>

\* response.text() resolves: throw new Error(`Analysis failed: ${status}`).
TextResolves(i) ==
    /\ runs[i].phase = "text"
    /\ Throw(i, <<"Analysis failed: ">> \o NumberToString(runs[i].response.status))

\* response.text() rejects.
TextRejects(i) ==
    /\ runs[i].phase = "text"
    /\ Throw(i, <<"Failed to read response">>)

\* response.json() rejects: the body is not JSON.
JsonRejects(i) ==
    /\ runs[i].phase = "json"
    /\ Throw(i, <<"JSON Parse error">>)

\* response.json() resolves with a body that fails the check of lines 156-159.
JsonInvalid(i) ==
    /\ runs[i].phase = "json"
    /\ ~HasCategoryAndExplanation(runs[i].response.body)
    /\ Throw(i, <<"Invalid response from server">>)

\* response.json() resolves with a valid body: setResult(data), then
\* `finally` (lines 161, 171-173).
JsonValid(i) ==
    /\ runs[i].phase = "json"
    /\ HasCategoryAndExplanation(runs[i].response.body)
    /\ result' = runs[i].response.body
    /\ resultOf' = runs[i].image
    /\ analyzing' = FALSE
    /\ runs' = RemoveAt(runs, i)
    /\ UNCHANGED <<selectedImage, picker, alert>>

\* The reset button, rendered over the selected image (lines 177-181, 216).
Reset ==
    /\ picker = "none"
    /\ selectedImage # Null
    /\ selectedImage' = Null
    /\ result' = NoResult
    /\ resultOf' = Null
    /\ UNCHANGED <<analyzing, picker, runs, alert>>

ClientNext ==
    \/ TakePhoto /\ UNCHANGED serverVars
    \/ PermissionDenied /\ UNCHANGED serverVars
    \/ PermissionRejects /\ UNCHANGED serverVars
    \/ PermissionGranted /\ UNCHANGED serverVars
    \/ \E res \in PickerResults : CameraResolves(res) /\ UNCHANGED serverVars
    \/ CameraRejects /\ UNCHANGED serverVars
    \/ PickImage /\ UNCHANGED serverVars
    \/ \E res \in PickerResults : LibraryResolves(res) /\ UNCHANGED serverVars
    \/ LibraryRejects /\ UNCHANGED serverVars
    \/ AnalyzeOutfit /\ UNCHANGED serverVars
    \/ \E i \in DOMAIN runs : FetchRejects(i) /\ UNCHANGED serverVars
    \/ \E i \in DOMAIN runs, resp \in HttpResponses : FetchResolves(i, resp)
           /\ UNCHANGED serverVars
    \/ \E i \in DOMAIN runs : TextResolves(i) /\ UNCHANGED serverVars
    \/ \E i \in DOMAIN runs : TextRejects(i) /\ UNCHANGED serverVars
    \/ \E i \in DOMAIN runs : JsonRejects(i) /\ UNCHANGED serverVars
    \/ \E i \in DOMAIN runs : JsonInvalid(i) /\ UNCHANGED serverVars
    \/ \E i \in DOMAIN runs : JsonValid(i) /\ UNCHANGED serverVars
    \/ Reset /\ UNCHANGED serverVars

ClientSpec == Init /\ [][ClientNext]_vars

\* ------------------------------------------------------------------ claims
Done(r) == pc[r] = "done"

Started(r, op) == \E i \in DOMAIN calls[r] : calls[r][i].op = op

Resolved(r, op) == \E i \in DOMAIN settled[r] : settled[r][i] = [op |-> op, ok |-> TRUE]

Failed(r, op) == \E i \in DOMAIN settled[r] : settled[r][i] = [op |-> op, ok |-> FALSE]

GenericFailure == [status |-> 500, body |-> [error |-> "Failed to analyze outfit image"]]

FourLiterals ==
    {<<"S", "p", "o", "r", "t">>, <<"C", "a", "s", "u", "a", "l">>,
     <<"P", "r", "o", "f", "e", "s", "s", "i", "o", "n", "a", "l">>,
     <<"C", "h", "i", "l", "l">>}

\* C1: every 200 response carries a category that is one of the four
\* literals Sport, Casual, Professional, Chill, and it is the category the
\* classifier returned for that request.
C1_CategoryIsEnumLiteral ==
    \A r \in Requests : \A i \in DOMAIN replies[r] :
        replies[r][i].status = 200 =>
            /\ replies[r][i].body.category \in FourLiterals
            /\ replies[r][i].body.category = answer[r].category

C1_Witness ==
    \E r \in Requests :
        /\ replies[r] # <<>>
        /\ replies[r][1].status = 200
        /\ replies[r][1].body.category = <<"C", "h", "i", "l", "l">>

\* The vision model's answer does not satisfy the schema, or there is none.
AnswerUnusable(a) ==
    \/ a = NoAnswer
    \/ ~({"category", "explanation", "confidence"} \subseteq DOMAIN a)
    \/ a.category \notin FourLiterals

ClassifierOver(r) == Resolved(r, "generateObject") \/ Failed(r, "generateObject")

\* C2: when the classifier call fails or its output cannot satisfy the
\* schema, the request ends with 500 and exactly the generic body, no
\* response carries category, explanation, confidence or suggestionImageUrl,
\* and neither the synthesizer nor the store is called.
C2_ClassifierFailureIs500 ==
    \A r \in Requests :
        (ClassifierOver(r) /\ AnswerUnusable(answer[r])) =>
            /\ Done(r)
            /\ replies[r] = <<GenericFailure>>
            /\ ~Started(r, "generateText")
            /\ ~Started(r, "upload")
            /\ ~Started(r, "getSignedUrl")

C2_Witness ==
    \E r \in Requests :
        /\ ClassifierOver(r)
        /\ "category" \in DOMAIN answer[r]
        /\ answer[r].category = <<"F", "o", "r", "m", "a", "l">>
        /\ Done(r)

\* request.file found a file part of request r.
FilePartFound(r) == incoming[r].multipart /\ incoming[r].field # "none"

\* C3 (as stated): a request that carries no file in the `image` field ends
\* with 400 and exactly {error: "No file provided"}.
C3_NoImageFieldIs400 ==
    \A r \in Requests :
        (Done(r) /\ incoming[r].multipart /\ incoming[r].field # "image") =>
            replies[r] = <<[status |-> 400, body |-> [error |-> "No file provided"]]>>

\* C3 (amended): a multipart request that carries no file part at all,
\* under any field name, ends with 400 and exactly
\* {error: "No file provided"}, as soon as request.file has settled.
C3_NoFilePartIs400 ==
    \A r \in Requests :
        (Resolved(r, "file") /\ incoming[r].field = "none") =>
            /\ Done(r)
            /\ replies[r] = <<[status |-> 400, body |-> [error |-> "No file provided"]]>>

C3_Witness ==
    \E r \in Requests :
        /\ Resolved(r, "file")
        /\ incoming[r].multipart
        /\ incoming[r].field = "none"
        /\ Done(r)

TenMegabytes == 10 * 1024 * 1024

\* C4: an uploaded file larger than 10*1024*1024 bytes ends the request
\* with 413 and exactly {error: "File size limit exceeded (max 10MB)"}; a
\* file of at most that size, read intact, never gets a 413.
C4_OversizeIs413 ==
    \A r \in Requests :
        (FilePartFound(r) /\ (Resolved(r, "toBuffer") \/ Failed(r, "toBuffer"))) =>
            /\ incoming[r].size > TenMegabytes =>
                   /\ Done(r)
                   /\ replies[r] = <<[status |-> 413, body |->
                          [error |-> "File size limit exceeded (max 10MB)"]]>>
            /\ (incoming[r].size <= TenMegabytes /\ incoming[r].intact) =>
                   \A i \in DOMAIN replies[r] : replies[r][i].status # 413

C4_Witness ==
    \E r \in Requests :
        /\ FilePartFound(r)
        /\ incoming[r].size = TenMegabytes + 1
        /\ Failed(r, "toBuffer")
        /\ Done(r)

LaterStages == {"generateText", "upload", "getSignedUrl"}

\* C5: a failure of generateText, upload or getSignedUrl after a successful
\* classification ends the request with 500 and the generic body, and every
\* 500 response has that same body whichever call failed.
C5_LaterFailureIsGeneric500 ==
    \A r \in Requests :
        /\ (\E op \in LaterStages : Failed(r, op)) =>
               /\ Resolved(r, "generateObject")
               /\ Done(r)
               /\ replies[r] = <<GenericFailure>>
        /\ \A i \in DOMAIN replies[r] :
               replies[r][i].status = 500 => replies[r][i] = GenericFailure

C5_Witness ==
    \E r \in Requests :
        /\ Resolved(r, "generateObject")
        /\ Resolved(r, "upload")
        /\ Failed(r, "getSignedUrl")
        /\ Done(r)

\* The response that hands the classifier's analysis of request r back.
CarriesAnalysis(reply, r) ==
    /\ reply.status = 200
    /\ {"category", "explanation", "confidence"} \subseteq DOMAIN reply.body
    /\ reply.body.category = object[r].category
    /\ reply.body.explanation = object[r].explanation
    /\ reply.body.confidence = object[r].confidence

\* C6 (as stated): when classification succeeded and the synthesizer call
\* fails, the request still ends with a 200 response carrying the
\* classifier's category, explanation and confidence.
C6_SynthesizerFailureNotFatal ==
    \A r \in Requests :
        (Resolved(r, "generateObject") /\ Failed(r, "generateText") /\ Done(r)) =>
            /\ replies[r] # <<>>
            /\ CarriesAnalysis(replies[r][Len(replies[r])], r)

\* C6 (amended): when classification succeeded and the synthesizer call
\* fails, the failure is fatal: the request ends with the generic 500 and no
\* response carries the classifier's category, explanation or confidence.
C6_SynthesizerFailureIsFatal ==
    \A r \in Requests :
        Failed(r, "generateText") =>
            /\ Resolved(r, "generateObject")
            /\ Done(r)
            /\ Len(replies[r]) = 1
            /\ replies[r][1].status = 500
            /\ replies[r][1].body = [error |-> "Failed to analyze outfit image"]
            /\ \A i \in DOMAIN replies[r] : ~CarriesAnalysis(replies[r][i], r)

C6_Witness ==
    \E r \in Requests :
        /\ Resolved(r, "generateObject")
        /\ object[r].category \in FourLiterals
        /\ Failed(r, "generateText")
        /\ Done(r)

\* The media type begins with "image/".
BeginsWithImageSlash(mediaType) ==
    /\ Len(mediaType) >= 6
    /\ \A i \in 1..6 : mediaType[i] = <<"i", "m", "a", "g", "e", "/">>[i]

\* The synthesizer returned no image asset: files absent, empty, or no file
\* whose media type begins with "image/".
NoImageAsset(res) ==
    \/ "files" \notin DOMAIN res
    \/ \A i \in DOMAIN res.files :
           \/ "mediaType" \notin DOMAIN res.files[i]
           \/ ~BeginsWithImageSlash(res.files[i].mediaType)

\* C7: when classification succeeded and generateText resolves without an
\* image asset, the request ends with 200, suggestionImageUrl is the empty
\* string, and neither upload nor getSignedUrl is called.
C7_NoImageIsEmptyUrl ==
    \A r \in Requests :
        (Resolved(r, "generateText") /\ NoImageAsset(generationResult[r])) =>
            /\ Resolved(r, "generateObject")
            /\ Done(r)
            /\ Len(replies[r]) = 1
            /\ replies[r][1].status = 200
            /\ replies[r][1].body.suggestionImageUrl = <<>>
            /\ ~Started(r, "upload")
            /\ ~Started(r, "getSignedUrl")

C7_Witness ==
    \E r \in Requests :
        /\ Resolved(r, "generateText")
        /\ "files" \in DOMAIN generationResult[r]
        /\ Len(generationResult[r].files) = 2
        /\ NoImageAsset(generationResult[r])
        /\ Done(r)

\* The place of each external call in the handler's text.
Rank(op) ==
    CASE op = "file" -> 1
      [] op = "toBuffer" -> 2
      [] op = "generateObject" -> 3
      [] op = "generateText" -> 4
      [] op = "upload" -> 5
      [] op = "getSignedUrl" -> 6

\* C8: within one request the calls run in the order classify, synthesize,
\* upload, getSignedUrl, respond: generateText starts only after
\* generateObject returned a valid analysis, upload only after generateText
\* returned an image, getSignedUrl only after upload completed, the 200
\* response only after every call started has returned, and no two external
\* calls of a request are outstanding at once.
C8_StagesAreSequential ==
    \A r \in Requests :
        /\ Cardinality(pending[r]) <= 1
        /\ \A i, j \in DOMAIN calls[r] :
               i < j => Rank(calls[r][i].op) < Rank(calls[r][j].op)
        /\ Started(r, "generateText") =>
               /\ Resolved(r, "generateObject")
               /\ object[r] \in [category : FourLiterals,
                                 explanation : {answer[r].explanation},
                                 confidence : {answer[r].confidence}]
        /\ Started(r, "upload") =>
               /\ Resolved(r, "generateText")
               /\ ~NoImageAsset(generationResult[r])
        /\ Started(r, "getSignedUrl") =>
               /\ Resolved(r, "upload")
               /\ \E o \in store : o[1] = storageKey[r]
        /\ \A i \in DOMAIN replies[r] :
               replies[r][i].status = 200 =>
                   /\ pending[r] = {}
                   /\ Resolved(r, "generateObject")
                   /\ \A c \in DOMAIN calls[r] : Resolved(r, calls[r][c].op)

C8_Witness ==
    \E r \in Requests :
        /\ Len(calls[r]) = 6
        /\ Resolved(r, "getSignedUrl")
        /\ replies[r] # <<>>
        /\ replies[r][1].status = 200

\* How many times request r has started the call op.
TimesStarted(r, op) == Cardinality({i \in DOMAIN calls[r] : calls[r][i].op = op})

\* C9: no stage is retried: in every execution of a request, generateObject,
\* generateText, upload and getSignedUrl are each invoked at most once, on
\* the failure paths too.
C9_NoStageRetried ==
    \A r \in Requests :
        \A op \in {"generateObject", "generateText", "upload", "getSignedUrl"} :
            /\ TimesStarted(r, op) <= 1
            /\ Failed(r, op) => (Done(r) /\ TimesStarted(r, op) = 1)

C9_Witness ==
    \E r \in Requests :
        /\ Failed(r, "upload")
        /\ Done(r)
        /\ TimesStarted(r, "upload") = 1

\* The lower-case spelling of each category.
LowerCased(category) ==
    CASE category = <<"S", "p", "o", "r", "t">> -> <<"s", "p", "o", "r", "t">>
      [] category = <<"C", "a", "s", "u", "a", "l">> -> <<"c", "a", "s", "u", "a", "l">>
      [] category = <<"P", "r", "o", "f", "e", "s", "s", "i", "o", "n", "a", "l">> ->
             <<"p", "r", "o", "f", "e", "s", "s", "i", "o", "n", "a", "l">>
      [] category = <<"C", "h", "i", "l", "l">> -> <<"c", "h", "i", "l", "l">>

\* The number a decimal text spells, -1 when it is no decimal text.
RECURSIVE DecimalValue(_)
DecimalValue(text) ==
    IF text = <<>> THEN -1
    ELSE LET last == text[Len(text)]
             digit == IF \E d \in 0..9 : DecimalDigits[d + 1] = last
                      THEN CHOOSE d \in 0..9 : DecimalDigits[d + 1] = last
                      ELSE -1
         IN  IF digit = -1 THEN -1
             ELSE IF Len(text) = 1 THEN digit
             ELSE LET front == DecimalValue(SubSeq(text, 1, Len(text) - 1))
                  IN  IF front <= 0 THEN -1 ELSE 10 * front + digit

\* key is outfit-suggestions/{ts}-{category lowercased}.png
HasKeyFormat(key, ts, category) ==
    \E dash \in 3..(Len(key) - 2) :
        /\ key[1] = "outfit-suggestions/"
        /\ DecimalValue(SubSeq(key, 2, dash - 1)) = ts
        /\ key[dash] = "-"
        /\ SubSeq(key, dash + 1, Len(key) - 1) = LowerCased(category)
        /\ key[Len(key)] = ".png"

KeysOf(r, op) == {calls[r][i].key : i \in {j \in DOMAIN calls[r] : calls[r][j].op = op}}

\* C10: the key passed to upload is outfit-suggestions/{timestamp-ms}-
\* {category lowercased}.png for the timestamp read and the category
\* classified in that request, so it is fixed by those two values, and the
\* key passed to getSignedUrl is the key that was passed to upload.
C10_StorageKeyFormat ==
    \A r \in Requests :
        /\ \A k \in KeysOf(r, "upload") :
               /\ HasKeyFormat(k, timestamp[r], object[r].category)
               /\ timestamp[r] \in FirstClock..clock
               /\ \A q \in Requests :
                      (/\ Started(q, "upload")
                       /\ timestamp[q] = timestamp[r]
                       /\ object[q].category = object[r].category)
                          => KeysOf(q, "upload") = {k}
        /\ Started(r, "getSignedUrl") =>
               /\ Cardinality(KeysOf(r, "upload")) = 1
               /\ KeysOf(r, "getSignedUrl") = KeysOf(r, "upload")

C10_Witness ==
    \E r \in Requests :
        /\ Started(r, "getSignedUrl")
        /\ timestamp[r] = FirstClock + 1
        /\ object[r].category = <<"P", "r", "o", "f", "e", "s", "s", "i", "o", "n", "a", "l">>

\* The requests the server has, whichever specification runs.
Handled == DOMAIN pc

\* The bytes of the first file of res whose media type begins with "image/".
FirstImageBytes(res) ==
    LET images == {i \in DOMAIN res.files :
                      /\ "mediaType" \in DOMAIN res.files[i]
                      /\ BeginsWithImageSlash(res.files[i].mediaType)}
        first == CHOOSE i \in images : \A j \in images : i <= j
    IN  IF "uint8Array" \in DOMAIN res.files[first]
        THEN res.files[first].uint8Array
        ELSE <<>>

\* Requests r and q read the same millisecond and classified alike.
SameMsAndCategory(r, q) ==
    /\ timestamp[r] = timestamp[q]
    /\ object[r].category = object[q].category

\* C11: over any interleaving of concurrent requests, two requests that
\* upload derive the same storage key exactly when they read the same
\* timestamp and have the same category; a request's stored artifact is
\* overwritten only by a request with the same timestamp and category.
C11_KeysCollideOnlyOnSameMsAndCategory ==
    \A r \in Handled :
        /\ \A q \in Handled \ {r} :
               (Started(r, "upload") /\ Started(q, "upload")) =>
                   ((storageKey[r] = storageKey[q]) <=> SameMsAndCategory(r, q))
        /\ (/\ Resolved(r, "upload")
            /\ \A q \in Handled \ {r} :
                   Resolved(q, "upload") => ~SameMsAndCategory(r, q)) =>
               <<storageKey[r], FirstImageBytes(generationResult[r])>> \in store

C11_Witness ==
    \E r \in Handled : \E q \in Handled \ {r} :
        /\ Resolved(r, "upload")
        /\ Resolved(q, "upload")
        /\ timestamp[r] = timestamp[q]
        /\ object[r].category # object[q].category
        /\ Cardinality(store) = 2

\* C12: the handler shares no mutable state between requests: under any
\* interleaving, the category, explanation and confidence of a 200 response
\* are the values the classifier returned to that same request, and its
\* suggestionImageUrl is empty or the URL getSignedUrl returned to that same
\* request for its own key.
C12_ResponsesAreRequestLocal ==
    \A r \in Handled : \A i \in DOMAIN replies[r] :
        replies[r][i].status = 200 =>
            /\ Resolved(r, "generateObject")
            /\ replies[r][i].body.category = answer[r].category
            /\ replies[r][i].body.explanation = answer[r].explanation
            /\ replies[r][i].body.confidence = answer[r].confidence
            /\ \/ replies[r][i].body.suggestionImageUrl = <<>>
               \/ /\ Resolved(r, "getSignedUrl")
                  /\ \E k \in KeysOf(r, "getSignedUrl") :
                         /\ k = StorageKey(timestamp[r], answer[r].category)
                         /\ replies[r][i].body.suggestionImageUrl = SignedUrl(k)

C12_Witness ==
    \E r \in Handled : \E q \in Handled \ {r} :
        /\ replies[r] # <<>> /\ replies[r][1].status = 200
        /\ replies[q] # <<>> /\ replies[q][1].status = 200
        /\ replies[r][1].body.category # replies[q][1].body.category
        /\ replies[r][1].body.suggestionImageUrl # <<>>
        /\ replies[q][1].body.suggestionImageUrl = <<>>

\* What request r has done once generateText returned res: nothing is
\* uploaded and the answer is 200 with an empty URL and no error when res
\* has no image asset; an upload is started when its first image file
\* carries bytes, and only when res has an image asset.
ExtractionOutcome(r, res) ==
    /\ NoImageAsset(res) =>
           /\ ~Started(r, "upload")
           /\ Len(replies[r]) = 1
           /\ replies[r][1].status = 200
           /\ replies[r][1].body.suggestionImageUrl = <<>>
           /\ errorLog[r] = <<>>
    /\ Started(r, "upload") => ~NoImageAsset(res)
    /\ (~NoImageAsset(res) /\ FirstImageBytes(res) # <<>>) => Started(r, "upload")

\* C13: extraction takes the first file, in returned order, whose media type
\* begins with "image/", skipping files before it with another or no media
\* type; the bytes upload stores are the bytes of that file; and when there
\* is no such file the URL is empty and no error is raised.
C13_FirstImageFileIsUploaded ==
    /\ [](\A r \in Handled :
              Resolved(r, "generateText") => ExtractionOutcome(r, generationResult[r]))
    /\ [][\A r \in Handled :
              (pc[r] = "upload" /\ pc'[r] = "getSignedUrl") =>
                  <<storageKey[r], FirstImageBytes(generationResult[r])>> \in store']_vars

C13_Witness ==
    \E r \in Handled :
        /\ Resolved(r, "upload")
        /\ Len(generationResult[r].files) = 3
        /\ ~BeginsWithImageSlash(generationResult[r].files[1].mediaType)
        /\ <<storageKey[r], generationResult[r].files[2].uint8Array>> \in store

\* C14: a request that ends with 500 has written exactly one error record to
\* the logger by the time the response is sent; requests that end with 200,
\* 400 or 413 write none; and the 500 body holds the fixed message only,
\* nothing of the error that was logged.
C14_OneErrorRecordPer500 ==
    \A r \in Handled :
        /\ Len(errorLog[r]) = Cardinality({i \in DOMAIN replies[r] :
                                               replies[r][i].status = 500})
        /\ \A i \in DOMAIN replies[r] :
               /\ replies[r][i].status = 500 =>
                      /\ Len(errorLog[r]) = 1
                      /\ errorLog[r][1].msg = "Error analyzing outfit"
                      /\ DOMAIN replies[r][i].body = {"error"}
                      /\ replies[r][i].body.error = "Failed to analyze outfit image"
               /\ replies[r][i].status \in {200, 400, 413} => errorLog[r] = <<>>
        /\ replies[r] = <<>> => errorLog[r] = <<>>

C14_Witness ==
    \E r \in Handled :
        /\ Done(r)
        /\ replies[r][1].status = 500
        /\ Len(errorLog[r]) = 1
        /\ errorLog[r][1].error = "upload"

\* C15: a request that ends with 400 or 413 has invoked neither the
\* classifier, nor the synthesizer, nor storage upload, nor getSignedUrl, and
\* the step that sends such a response leaves the artifact store as it was.
C15_IntakeErrorsRunNoLaterStage ==
    /\ [](\A r \in Handled :
              (\E i \in DOMAIN replies[r] : replies[r][i].status \in {400, 413}) =>
                  /\ \A op \in LaterStages \cup {"generateObject"} : ~Started(r, op)
                  /\ storageKey[r] = <<>>
                  /\ \A i \in DOMAIN calls[r] : calls[r][i].op \in {"file", "toBuffer"})
    /\ [][\A r \in Handled :
              (/\ Len(replies'[r]) > Len(replies[r])
               /\ replies'[r][Len(replies'[r])].status \in {400, 413}) =>
                  store' = store]_vars

C15_Witness ==
    \E r \in Handled :
        /\ Done(r)
        /\ replies[r][1].status = 413
        /\ Failed(r, "toBuffer")
        /\ calls[r] = <<CallOf("file", <<>>), CallOf("toBuffer", <<>>)>>

\* C16: a 413 response is sent only when the uploaded file exceeds the 10 MB
\* limit; a buffering failure for any other reason does not produce 413.
C16_413OnlyWhenOversize ==
    \A r \in Handled :
        \A i \in DOMAIN replies[r] :
            replies[r][i].status = 413 => incoming[r].size > TenMegabytes

\* C17: a request that ends with 500 leaves the artifact store unchanged: no
\* object it uploaded remains in the store.
C17_FailedRequestLeavesNoArtifact ==
    \A r \in Handled :
        (Done(r) /\ replies[r][Len(replies[r])].status = 500) =>
            ~(Resolved(r, "upload") /\ \E o \in store : o[1] = storageKey[r])

\* C18: if every external call eventually returns or throws, every request
\* that was received eventually gets exactly one response, with status 200,
\* 400, 413 or 500; no path sends two responses or ends without one.
C18_ExactlyOneResponse ==
    /\ [](\A r \in Requests :
              /\ Len(replies[r]) <= 1
              /\ \A i \in DOMAIN replies[r] : replies[r][i].status \in {200, 400, 413, 500}
              /\ Done(r) <=> Len(replies[r]) = 1)
    /\ \A r \in Requests : (pc[r] # "idle") ~> (Done(r) /\ Len(replies[r]) = 1)

C18_Witness ==
    \E r \in Requests :
        /\ Done(r)
        /\ Len(replies[r]) = 1
        /\ replies[r][1].status = 200
        /\ Len(settled[r]) = 6

\* C19: in the client screen at most one analysis request is in flight,
\* `analyzing` is true exactly while a run of analyzeOutfit has not finished,
\* it is false once the run has finished on any path, and `result` is set
\* only from an OK response that has both category and explanation.
C19_OneAnalysisInFlight ==
    /\ [](/\ Len(runs) <= 1
          /\ analyzing <=> runs # <<>>)
    /\ [][Len(runs') < Len(runs) => ~analyzing']_vars
    /\ [][(result' # result /\ result' # NoResult) =>
              \E i \in DOMAIN runs :
                  /\ IsOk(runs[i].response.status)
                  /\ result' = runs[i].response.body
                  /\ "category" \in DOMAIN result' /\ result'.category # <<>>
                  /\ "explanation" \in DOMAIN result' /\ result'.explanation # ""]_vars

C19_Witness ==
    /\ result # NoResult
    /\ ~analyzing
    /\ runs = <<>>
    /\ alert.message = <<"Analysis failed: ", "5", "0", "0">>

\* C20: in the client screen, whenever `result` is non-null, `selectedImage`
\* is non-null and `result` is the analysis of the currently selected image,
\* under every interleaving of takePhoto, pickImage, reset and analyzeOutfit
\* with the arrival of the response.
C20_ResultIsOfSelectedImage ==
    result # NoResult => (selectedImage # Null /\ resultOf = selectedImage)

====
